---- MODULE Spec2Model ----
(***************************************************************************)
(* Travel & Logistics Analysis Dashboard (app.py).                         *)
(*                                                                         *)
(* The script is run top to bottom on every render pass: load_data()       *)
(* (memoized by st.cache_data), the empty-table stop, the Status filter,   *)
(* the KPI row, five aggregate views and the churn roster.  A pass is      *)
(* started again by a user interaction (a new multiselect choice).         *)
(*                                                                         *)
(* A table is [cols |-> set of column names, rows |-> sequence of rows],   *)
(* a row being a function from cols to cell values.  Labels of the         *)
(* identifier columns (Booked By, Route, Category, Drivers, Phone number,  *)
(* Name) are numbered in their sort order; dates are day numbers since     *)
(* 1970-01-01; Net Amount is an integer amount.                            *)
(***************************************************************************)
EXTENDS Integers, Sequences, FiniteSets, TLC

VARIABLES
    file,        \* what is at DATA_PATH now
    cache,       \* the st.cache_data entry of load_data
    reads,       \* number of pd.read_excel calls so far
    pc,          \* position of the script in the current pass
    df,          \* the module-level name df (the working table)
    alias,       \* df is the very object the cache entry holds
    selected,    \* state of the "Filter by Status" multiselect
    touched,     \* the user has changed the multiselect
    out,         \* values emitted by the current pass
    views,       \* names of the views emitted by the current pass
    errors,      \* st.error messages shown in the current pass
    exception,   \* uncaught exception of the current pass
    attempt,     \* what load_data did in the current pass
    loaded,      \* the table load_data returned in the current pass
    firstLoaded  \* the table load_data returned on its first call

vars == <<file, cache, reads, pc, df, alias, selected, touched, out, views,
          errors, exception, attempt, loaded, firstLoaded>>

-----------------------------------------------------------------------------
(* Bounds of the inputs *)
MaxGenRows == 24
MaxGroups == 12

(* Program constants *)
TopN == 10
ChurnThreshold == 2
EpochWeekday == 3

(* Null markers *)
NaN == -999
BadText == -998
NaStr == "<NaN>"

DateCols == {"Journey Date", "Booked On", "Issued On"}
AllCols == {"Journey Date", "Booked On", "Issued On", "Status", "Net Amount",
            "Booked By", "Route", "Category", "Drivers", "Phone number", "Name"}
GatingCols == {"Booked By", "Journey Date", "Route", "Category", "Drivers",
               "Net Amount", "Status", "Phone number"}

day_order == <<"Monday", "Tuesday", "Wednesday", "Thursday", "Friday",
               "Saturday", "Sunday">>

Min(a, b) == IF a < b THEN a ELSE b

EmptyTable == [cols |-> {}, rows |-> <<>>]

IsEmpty(t) == t.cols = {} \/ Len(t.rows) = 0

-----------------------------------------------------------------------------
(* Sequence helpers standing for the pandas primitives the script chains *)

RECURSIVE SumSeq(_)
SumSeq(s) == IF s = <<>> THEN 0 ELSE Head(s) + SumSeq(Tail(s))

Head_n(s, n) == SubSeq(s, 1, Min(n, Len(s)))

Column(t, col) == [i \in 1..Len(t.rows) |-> t.rows[i][col]]

DropNa(s, null) == SelectSeq(s, LAMBDA x : x # null)

\* distinct values in order of first appearance
RECURSIVE Unique(_)
Unique(s) ==
    IF s = <<>> THEN <<>>
    ELSE LET h == Head(s)
         IN  <<h>> \o Unique(SelectSeq(Tail(s), LAMBDA x : x # h))

Range(s) == {s[i] : i \in 1..Len(s)}

\* insert e into a sequence already ordered non-increasing by val, after its equals
RECURSIVE InsertDesc(_, _)
InsertDesc(e, s) ==
    IF s = <<>> THEN <<e>>
    ELSE IF Head(s).val >= e.val THEN <<Head(s)>> \o InsertDesc(e, Tail(s))
    ELSE <<e>> \o s

\* sort_values(ascending=False); pandas leaves the order of equal values open,
\* here they keep the order they had
RECURSIVE SortValuesDesc(_)
SortValuesDesc(s) ==
    IF s = <<>> THEN <<>>
    ELSE InsertDesc(s[Len(s)], SortValuesDesc(SubSeq(s, 1, Len(s) - 1)))

\* the keys of a groupby: distinct non-null values, ascending
RECURSIVE Ascending(_)
Ascending(S) ==
    IF S = {} THEN <<>>
    ELSE LET m == CHOOSE x \in S : \A y \in S : x <= y
         IN  <<m>> \o Ascending(S \ {m})

GroupKeys(t, col) == Ascending(Range(Column(t, col)) \ {NaN})

GroupRows(t, col, k) == SelectSeq(t.rows, LAMBDA r : r[col] = k)

\* Series.sum(): nulls contribute nothing
SumAmount(rows) ==
    SumSeq([i \in 1..Len(rows) |->
              IF rows[i]["Net Amount"] = NaN THEN 0 ELSE rows[i]["Net Amount"]])

\* df.groupby(col)['Net Amount'].sum()
GroupBySum(t, col) ==
    LET ks == GroupKeys(t, col)
    IN  [i \in 1..Len(ks) |-> [key |-> ks[i], val |-> SumAmount(GroupRows(t, col, ks[i]))]]

\* Series.value_counts(): non-null values, most frequent first
ValueCounts(s, null) ==
    LET u == Unique(DropNa(s, null))
    IN  SortValuesDesc([i \in 1..Len(u) |->
            [key |-> u[i], val |-> Len(SelectSeq(s, LAMBDA x : x = u[i]))]])

-----------------------------------------------------------------------------
(* load_data *)

to_datetime(x) == IF x = BadText THEN NaN ELSE x

AdvanceDays(r) ==
    IF r["Journey Date"] = NaN \/ r["Booked On"] = NaN THEN NaN
    ELSE r["Journey Date"] - r["Booked On"]

ParseRow(r, cols) ==
    LET d == [c \in cols |-> IF c \in DateCols THEN to_datetime(r[c]) ELSE r[c]]
    IN  IF {"Journey Date", "Booked On"} \subseteq cols
        THEN [c \in cols \cup {"Advance Days"} |->
                IF c = "Advance Days" THEN AdvanceDays(d) ELSE d[c]]
        ELSE d

ReadAndParse(t) ==
    [cols |-> IF {"Journey Date", "Booked On"} \subseteq t.cols
              THEN t.cols \cup {"Advance Days"} ELSE t.cols,
     rows |-> [i \in 1..Len(t.rows) |-> ParseRow(t.rows[i], t.cols)]]

\* the body of load_data: <<returned table, st.error messages, outcome>>
LoadBody(f) ==
    IF f.kind = "absent"
    THEN [tbl |-> EmptyTable, msgs |-> <<"Dataset file not found">>, how |-> "missing"]
    ELSE IF f.kind = "corrupt"
    THEN [tbl |-> EmptyTable, msgs |-> <<"Error loading data">>, how |-> "failed"]
    ELSE [tbl |-> ReadAndParse(f.tbl), msgs |-> <<>>, how |-> "ok"]

\* as st.cache_resource would: every caller gets the stored object itself
CacheReturnStored == TRUE

\* st.cache_data hands out the stored value by copy, never the stored object
CacheReturnShared == FALSE

-----------------------------------------------------------------------------
(* The views *)

\* a match that ignores the case of the first letter
CountStatusAnyCase(t, label) ==
    Len(SelectSeq(t.rows, LAMBDA r :
          \/ r["Status"] = label
          \/ (label = "Cancel" /\ r["Status"] = "cancel")))

CountStatus(t, label) == Len(SelectSeq(t.rows, LAMBDA r : r["Status"] = label))

\* status_list = df['Status'].dropna().unique().tolist()
StatusList(t) == Unique(DropNa(Column(t, "Status"), NaStr))

\* df[df['Status'].isin(selected_status)]
FilterStatus(t, sel) ==
    [cols |-> t.cols, rows |-> SelectSeq(t.rows, LAMBDA r : r["Status"] \in sel)]

\* df['Booked By'].value_counts().head(10)
TopChannels(t) == Head_n(ValueCounts(Column(t, "Booked By"), NaN), TopN)

\* Series.dt.day_name()
day_name(d) == IF d = NaN THEN NaStr ELSE day_order[((d + EpochWeekday) % 7) + 1]

\* df['Weekday'] = df['Journey Date'].dt.day_name()
AddWeekday(t) ==
    [cols |-> t.cols \cup {"Weekday"},
     rows |-> [i \in 1..Len(t.rows) |->
                 [c \in t.cols \cup {"Weekday"} |->
                    IF c = "Weekday" THEN day_name(t.rows[i]["Journey Date"])
                    ELSE t.rows[i][c]]]]

\* the counts as value_counts leaves them, without the reindex
NoReindex(vc, labels) ==
    [i \in 1..Len(vc) |-> [Day |-> vc[i].key, Bookings |-> vc[i].val]]

\* .reindex(day_order): one entry per label, NaN where the label is missing
Reindex(vc, labels) ==
    [i \in 1..Len(labels) |->
       [Day |-> labels[i],
        Bookings |-> IF \E j \in 1..Len(vc) : vc[j].key = labels[i]
                     THEN vc[CHOOSE j \in 1..Len(vc) : vc[j].key = labels[i]].val
                     ELSE NaN]]

\* .fillna(0)
FillNa(s) ==
    [i \in 1..Len(s) |->
       [Day |-> s[i].Day, Bookings |-> IF s[i].Bookings = NaN THEN 0 ELSE s[i].Bookings]]

\* df['Weekday'].value_counts().reindex(day_order).fillna(0)
WeekData(t) == FillNa(Reindex(ValueCounts(Column(t, "Weekday"), NaStr), day_order))

\* truncation applied before the sort
RouteRevHeadFirst(t) == SortValuesDesc(Head_n(GroupBySum(t, "Route"), TopN))

\* groupby('Route')['Net Amount'].sum().sort_values(ascending=False).head(10)
RouteRev(t) == Head_n(SortValuesDesc(GroupBySum(t, "Route")), TopN)

\* truncated like the route and driver views
CatRevTopN(t) == Head_n(GroupBySum(t, "Category"), TopN)

\* groupby('Category')['Net Amount'].sum()
CatRev(t) == GroupBySum(t, "Category")

\* groupby('Drivers')['Net Amount'].sum().sort_values(ascending=False).head(10)
DriverRev(t) == Head_n(SortValuesDesc(GroupBySum(t, "Drivers")), TopN)

\* the 'first' aggregation: first non-null value of the group
First(s) == IF DropNa(s, NaN) = <<>> THEN NaN ELSE Head(DropNa(s, NaN))

\* groupby('Phone number').agg(...).sort_values('Total_Cancellations', ascending=False)
ChurnData(t) ==
    LET ks == GroupKeys(t, "Phone number")
    IN  SortValuesDesc([i \in 1..Len(ks) |->
          LET g == GroupRows(t, "Phone number", ks[i])
          IN  [key |-> ks[i],
               val |-> Len(SelectSeq(g, LAMBDA r : r["Status"] = "Cancel")),
               Name |-> First([j \in 1..Len(g) |-> g[j]["Name"]])]])

\* churn_data[churn_data['Total_Cancellations'] >= 2]
HighRisk(cd) == SelectSeq(cd, LAMBDA e : e.val >= ChurnThreshold)

-----------------------------------------------------------------------------
(* Source files the model runs on *)

GenStatus(i, v) ==
    IF v = 1 THEN <<"Booked", "Cancel", "Cancel">>[((i - 1) % 3) + 1]
    ELSE IF v = 2 THEN <<"Cancel", "cancel", "Booked", NaStr, "Cancel">>[((i - 1) % 5) + 1]
    ELSE "Cancel"

GenJourney(i, v) ==
    IF v = 1 THEN 4 + (i % 3)
    ELSE IF v = 2 THEN <<0, NaN, 4, BadText, 11, 2, 4>>[((i - 1) % 7) + 1]
    ELSE IF i % 2 = 0 THEN NaN ELSE BadText

GenRow(i, k, v) ==
    [c \in AllCols |->
       CASE c = "Status" -> GenStatus(i, v)
         [] c = "Journey Date" -> GenJourney(i, v)
         [] c = "Booked On" -> IF v = 2 /\ i % 4 = 3 THEN BadText ELSE i % 4
         [] c = "Issued On" -> i % 2
         [] c = "Net Amount" -> IF v = 2 /\ i % 4 = 0 THEN NaN ELSE ((i * 7) % 5) * 10 - 10
         [] c = "Booked By" -> IF v = 2 /\ i % 6 = 0 THEN NaN ELSE (((i - 1) * 5) % k) + 1
         [] c = "Route" -> IF v = 2 /\ i % 5 = 0 THEN NaN ELSE ((i - 1) % k) + 1
         [] c = "Category" -> ((i + 2) % k) + 1
         [] c = "Drivers" -> IF v = 2 /\ i % 3 = 0 THEN NaN ELSE k - ((i - 1) % k)
         [] c = "Phone number" -> IF v = 2 /\ i % 7 = 0 THEN NaN ELSE k - ((i - 1) % k)
         [] OTHER -> IF i % 3 = 1 THEN NaN ELSE 100 + i]

GenTable(n, k, v, cols) ==
    [cols |-> cols, rows |-> [i \in 1..n |-> [c \in cols |-> GenRow(i, k, v)[c]]]]

Sizes == {0, 1, 2, 3, 5, MaxGenRows - 1, MaxGenRows}
GroupMods == {1, 2, TopN + 1, MaxGroups}
Variants == {1, 2, 3}
Missing == {m \in SUBSET AllCols : Cardinality(m) <= 1}
             \cup {{"Name", c} : c \in GatingCols} \cup {AllCols}

AbsentFile == [kind |-> "absent", tbl |-> EmptyTable]
CorruptFile == [kind |-> "corrupt", tbl |-> EmptyTable]
TableFile(t) == [kind |-> "table", tbl |-> t]

\* what the file can be replaced by while the process runs
AltFile(j) ==
    IF j = 1 THEN AbsentFile
    ELSE IF j = 2 THEN CorruptFile
    ELSE TableFile(GenTable(3, 2, 1, AllCols \ {"Status"}))

-----------------------------------------------------------------------------
(* State machine *)

Out0 == [total |-> 0, revenue |-> 0, confirmed |-> 0, cancelled |-> 0,
         channels |-> <<>>, week |-> <<>>, routes |-> <<>>, cats |-> <<>>,
         drivers |-> <<>>, churn |-> <<>>, found |-> 0]

NoCache == [hit |-> FALSE, value |-> EmptyTable, msgs |-> <<>>]

Halted == pc \in {"done", "stopped", "crashed"}

Init ==
    /\ \/ file = AbsentFile
       \/ file = CorruptFile
       \/ \E n \in Sizes, k \in GroupMods, v \in Variants, m \in Missing :
             file = TableFile(GenTable(n, k, v, AllCols \ m))
    /\ cache = NoCache
    /\ reads = 0
    /\ pc = "load"
    /\ df = EmptyTable
    /\ alias = FALSE
    /\ selected = {}
    /\ touched = FALSE
    /\ out = Out0
    /\ views = {}
    /\ errors = <<>>
    /\ exception = "none"
    /\ attempt = "none"
    /\ loaded = EmptyTable
    /\ firstLoaded = EmptyTable

\* df = load_data(), load_data being wrapped by @st.cache_data
LoadData ==
    /\ pc = "load"
    /\ IF cache.hit
       THEN /\ df' = cache.value
            /\ errors' = cache.msgs
            /\ attempt' = "cached"
            /\ firstLoaded' = firstLoaded
            /\ UNCHANGED <<cache, reads>>
       ELSE LET r == LoadBody(file)
            IN  /\ df' = r.tbl
                /\ errors' = r.msgs
                /\ attempt' = r.how
                /\ firstLoaded' = r.tbl
                /\ cache' = [hit |-> TRUE, value |-> r.tbl, msgs |-> r.msgs]
                /\ reads' = IF file.kind = "absent" THEN reads ELSE reads + 1
    /\ loaded' = df'
    /\ alias' = CacheReturnShared
    /\ pc' = "check"
    /\ UNCHANGED <<file, selected, touched, out, views, exception>>

\* the script going on with an empty table
NeverStop ==
    /\ pc = "check"
    /\ pc' = "filter"
    /\ UNCHANGED <<file, cache, reads, df, alias, selected, touched, out, views,
                   errors, exception, attempt, loaded, firstLoaded>>

\* if df.empty: st.stop()
StopIfEmpty ==
    /\ pc = "check"
    /\ pc' = IF IsEmpty(df) THEN "stopped" ELSE "filter"
    /\ UNCHANGED <<file, cache, reads, df, alias, selected, touched, out, views,
                   errors, exception, attempt, loaded, firstLoaded>>

\* the sidebar multiselect and df = df[df['Status'].isin(selected_status)]
StatusFilter ==
    /\ pc = "filter"
    /\ IF "Status" \in df.cols
       THEN LET sel == IF touched THEN selected ELSE Range(StatusList(df))
            IN  /\ selected' = sel
                /\ df' = FilterStatus(df, sel)
                /\ alias' = FALSE
       ELSE UNCHANGED <<selected, df, alias>>
    /\ pc' = "kpi"
    /\ UNCHANGED <<file, cache, reads, touched, out, views, errors, exception,
                   attempt, loaded, firstLoaded>>

\* the four st.metric cells
KpiMetrics ==
    /\ pc = "kpi"
    /\ out' = [out EXCEPT
                 !.total = Len(df.rows),
                 !.revenue = IF "Net Amount" \in df.cols THEN SumAmount(df.rows) ELSE @,
                 !.confirmed = IF "Status" \in df.cols THEN CountStatus(df, "Booked") ELSE @,
                 !.cancelled = IF "Status" \in df.cols THEN CountStatus(df, "Cancel") ELSE @]
    /\ views' = views \cup {"total"}
                  \cup (IF "Net Amount" \in df.cols THEN {"revenue"} ELSE {})
                  \cup (IF "Status" \in df.cols THEN {"status_kpis"} ELSE {})
    /\ pc' = "channels"
    /\ UNCHANGED <<file, cache, reads, df, alias, selected, touched, errors,
                   exception, attempt, loaded, firstLoaded>>

BookingChannels ==
    /\ pc = "channels"
    /\ IF "Booked By" \in df.cols
       THEN /\ out' = [out EXCEPT !.channels = TopChannels(df)]
            /\ views' = views \cup {"channels"}
       ELSE UNCHANGED <<out, views>>
    /\ pc' = "weekday"
    /\ UNCHANGED <<file, cache, reads, df, alias, selected, touched, errors,
                   exception, attempt, loaded, firstLoaded>>

\* adds the Weekday column to df in place, then counts it
WeeklyDemand ==
    /\ pc = "weekday"
    /\ IF "Journey Date" \in df.cols
       THEN /\ df' = AddWeekday(df)
            /\ cache' = IF alias THEN [cache EXCEPT !.value = df'] ELSE cache
            /\ out' = [out EXCEPT !.week = WeekData(df')]
            /\ views' = views \cup {"week"}
       ELSE UNCHANGED <<df, cache, out, views>>
    /\ pc' = "routes"
    /\ UNCHANGED <<file, reads, alias, selected, touched, errors, exception,
                   attempt, loaded, firstLoaded>>

RouteAnalysis ==
    /\ pc = "routes"
    /\ IF {"Route", "Net Amount"} \subseteq df.cols
       THEN /\ out' = [out EXCEPT !.routes = RouteRev(df)]
            /\ views' = views \cup {"routes"}
       ELSE UNCHANGED <<out, views>>
    /\ pc' = "category"
    /\ UNCHANGED <<file, cache, reads, df, alias, selected, touched, errors,
                   exception, attempt, loaded, firstLoaded>>

FinancialAnalysis ==
    /\ pc = "category"
    /\ IF {"Category", "Net Amount"} \subseteq df.cols
       THEN /\ out' = [out EXCEPT !.cats = CatRev(df)]
            /\ views' = views \cup {"cats"}
       ELSE UNCHANGED <<out, views>>
    /\ pc' = "drivers"
    /\ UNCHANGED <<file, cache, reads, df, alias, selected, touched, errors,
                   exception, attempt, loaded, firstLoaded>>

OperationalEfficiency ==
    /\ pc = "drivers"
    /\ IF {"Drivers", "Net Amount"} \subseteq df.cols
       THEN /\ out' = [out EXCEPT !.drivers = DriverRev(df)]
            /\ views' = views \cup {"drivers"}
       ELSE UNCHANGED <<out, views>>
    /\ pc' = "churn"
    /\ UNCHANGED <<file, cache, reads, df, alias, selected, touched, errors,
                   exception, attempt, loaded, firstLoaded>>

\* the named aggregation Name=('Name', 'first') raises KeyError without a Name column
ChurnAnalysis ==
    /\ pc = "churn"
    /\ IF {"Phone number", "Status"} \subseteq df.cols
       THEN IF "Name" \in df.cols
            THEN LET high_risk == HighRisk(ChurnData(df))
                 IN  /\ out' = [out EXCEPT !.found = Len(high_risk),
                                           !.churn = Head_n(high_risk, TopN)]
                     /\ views' = views \cup {"churn"}
                     /\ pc' = "done"
                     /\ UNCHANGED exception
            ELSE /\ exception' = "KeyError"
                 /\ pc' = "crashed"
                 /\ UNCHANGED <<out, views>>
       ELSE /\ pc' = "done"
            /\ UNCHANGED <<out, views, exception>>
    /\ UNCHANGED <<file, cache, reads, df, alias, selected, touched, errors,
                   attempt, loaded, firstLoaded>>

\* a user interaction reruns the script; the multiselect offers status_list
Rerun ==
    /\ Halted
    /\ \/ UNCHANGED <<selected, touched>>
       \/ /\ "Status" \in loaded.cols
          /\ ~IsEmpty(loaded)
          /\ \E s \in SUBSET Range(StatusList(loaded)) :
                /\ s # selected
                /\ selected' = s
          /\ touched' = TRUE
    /\ pc' = "load"
    /\ out' = Out0
    /\ views' = {}
    /\ errors' = <<>>
    /\ exception' = "none"
    /\ UNCHANGED <<file, cache, reads, df, alias, attempt, loaded, firstLoaded>>

\* the file at DATA_PATH is replaced, removed or damaged between passes
FileChange ==
    /\ Halted
    /\ \E j \in 1..3 : file' = AltFile(j)
    /\ file' # file
    /\ UNCHANGED <<cache, reads, pc, df, alias, selected, touched, out, views,
                   errors, exception, attempt, loaded, firstLoaded>>

Next ==
    \/ LoadData
    \/ StopIfEmpty
    \/ StatusFilter
    \/ KpiMetrics
    \/ BookingChannels
    \/ WeeklyDemand
    \/ RouteAnalysis
    \/ FinancialAnalysis
    \/ OperationalEfficiency
    \/ ChurnAnalysis
    \/ Rerun
    \/ FileChange

Spec == Init /\ [][Next]_vars

-----------------------------------------------------------------------------
(* Properties *)

Idx(t) == 1..Len(t.rows)

RowsWith(t, col, k) == {i \in Idx(t) : t.rows[i][col] = k}

Groups(t, col) == {t.rows[i][col] : i \in Idx(t)} \ {NaN}

RECURSIVE AmountOver(_, _)
AmountOver(t, S) ==
    IF S = {} THEN 0
    ELSE LET i == CHOOSE x \in S : TRUE
             a == t.rows[i]["Net Amount"]
         IN  (IF a = NaN THEN 0 ELSE a) + AmountOver(t, S \ {i})

Revenue(t, col, k) == AmountOver(t, RowsWith(t, col, k))

Frequency(t, col, k) == Cardinality(RowsWith(t, col, k))

Cancellations(t, p) ==
    Cardinality({i \in RowsWith(t, "Phone number", p) : t.rows[i]["Status"] = "Cancel"})

Qualifying(t) == {p \in Groups(t, "Phone number") : Cancellations(t, p) >= 2}

NonIncreasing(s) == \A i \in 1..Len(s) - 1 : s[i].val >= s[i + 1].val

Keys(s) == {s[i].key : i \in 1..Len(s)}

\* C1: when the file is absent or cannot be read, load_data raises nothing,
\* returns the empty table and shows an error, and the pass stops before any
\* view is emitted.
LoadFailureHalts ==
    (pc # "load" /\ attempt \in {"missing", "failed"}) =>
        /\ exception = "none"
        /\ loaded = EmptyTable
        /\ Len(errors) > 0
        /\ views = {}
        /\ out = Out0
        /\ pc \in {"check", "stopped"}

LoadFailureSeen == pc = "stopped" /\ attempt = "failed" /\ reads = 1 /\ Len(errors) = 1

\* C2: with no Status column, or with every listed status selected, the
\* filtered table has exactly the rows of the loaded table, in the same order.
DefaultFilterIsIdentity ==
    (pc = "kpi" /\ ("Status" \notin loaded.cols \/ selected = Range(StatusList(loaded)))) =>
        df.rows = loaded.rows

\* C3: Total Bookings is the row count of the filtered table; Confirmed and
\* Cancellations count the rows whose Status is exactly "Booked" and exactly
\* "Cancel", so their sum never exceeds the total.
KpiCounts ==
    "total" \in views =>
        /\ out.total = Len(df.rows)
        /\ "Status" \in df.cols =>
              /\ "status_kpis" \in views
              /\ out.confirmed = Cardinality(RowsWith(df, "Status", "Booked"))
              /\ out.cancelled = Cardinality(RowsWith(df, "Status", "Cancel"))
              /\ out.confirmed + out.cancelled <= out.total

KpiOtherLabelSeen ==
    /\ "status_kpis" \in views
    /\ \E i \in Idx(df) : df.rows[i]["Status"] = "cancel"
    /\ out.cancelled > 0
    /\ out.confirmed > 0
    /\ out.confirmed + out.cancelled < out.total

\* C4: the weekday view always has the seven days Monday..Sunday in that
\* order, a day without bookings having count 0, and the counts add up to the
\* number of rows with a non-null Journey Date.
WeekdayDemandShape ==
    "week" \in views =>
        /\ Len(out.week) = 7
        /\ \A i \in 1..7 :
              /\ out.week[i].Day = day_order[i]
              /\ out.week[i].Bookings =
                    Cardinality({j \in Idx(df) :
                        /\ df.rows[j]["Journey Date"] # NaN
                        /\ (df.rows[j]["Journey Date"] + EpochWeekday) % 7 = i - 1})
        /\ SumSeq([i \in 1..Len(out.week) |-> out.week[i].Bookings]) =
              Cardinality({j \in Idx(df) : df.rows[j]["Journey Date"] # NaN})

WeekdayGapSeen ==
    /\ "week" \in views
    /\ \E j \in Idx(df) : df.rows[j]["Journey Date"] = NaN
    /\ \E i \in 1..7 : out.week[i].Bookings = 0
    /\ \E i \in 1..7 : out.week[i].Bookings > 1

\* C5: for every filtered table with Phone number and Status the roster is
\* emitted, holds only groups with at least 2 cancellations, is ordered
\* non-increasing, has min(10, qualifying groups) entries, and the reported
\* total is the number of qualifying groups.
ChurnRosterAlways ==
    (pc \in {"done", "crashed"} /\ {"Phone number", "Status"} \subseteq df.cols) =>
        /\ "churn" \in views
        /\ \A i \in 1..Len(out.churn) : out.churn[i].val >= 2
        /\ NonIncreasing(out.churn)
        /\ Len(out.churn) = Min(10, Cardinality(Qualifying(df)))
        /\ out.found = Cardinality(Qualifying(df))

\* C6: without a Name column the roster is still emitted, with the same
\* identifiers and counts, and the pass completes without an error.
NameIsOptional ==
    (/\ pc \in {"done", "crashed"}
     /\ {"Phone number", "Status"} \subseteq df.cols
     /\ "Name" \notin df.cols) =>
        /\ pc = "done"
        /\ exception = "none"
        /\ "churn" \in views
        /\ Keys(out.churn) \subseteq Qualifying(df)
        /\ \A i \in 1..Len(out.churn) :
              out.churn[i].val = Cancellations(df, out.churn[i].key)

\* the views a table with columns cs is due
ViewsOf(cs) ==
    {"total"}
      \cup (IF "Net Amount" \in cs THEN {"revenue"} ELSE {})
      \cup (IF "Status" \in cs THEN {"status_kpis"} ELSE {})
      \cup (IF "Booked By" \in cs THEN {"channels"} ELSE {})
      \cup (IF "Journey Date" \in cs THEN {"week"} ELSE {})
      \cup (IF {"Route", "Net Amount"} \subseteq cs THEN {"routes"} ELSE {})
      \cup (IF {"Category", "Net Amount"} \subseteq cs THEN {"cats"} ELSE {})
      \cup (IF {"Drivers", "Net Amount"} \subseteq cs THEN {"drivers"} ELSE {})
      \cup (IF {"Phone number", "Status"} \subseteq cs THEN {"churn"} ELSE {})

\* C7: a non-empty table lacking a view-gating column never ends a pass in
\* an error: the pass completes and emits exactly the views whose columns
\* are present.
MissingColumnNeverFails ==
    (pc \in {"done", "crashed"} /\ GatingCols \ loaded.cols # {}) =>
        /\ pc = "done"
        /\ exception = "none"
        /\ views = ViewsOf(loaded.cols)

\* C8: the file is read at most once, every call of load_data returns the
\* table the first call returned, and no pass alters the stored table.
LoadMemoized ==
    /\ reads <= 1
    /\ attempt # "none" => loaded = firstLoaded
    /\ cache.hit => cache.value = firstLoaded

LoadReplayedAfterChange ==
    /\ attempt = "cached"
    /\ pc = "done"
    /\ file.kind = "absent"
    /\ "Status" \notin loaded.cols
    /\ "Weekday" \in df.cols
    /\ Len(loaded.rows) > 0

TopTenOf(s, groups, Metric(_)) ==
    /\ Len(s) = Min(10, Cardinality(groups))
    /\ Cardinality(Keys(s)) = Len(s)
    /\ Keys(s) \subseteq groups
    /\ \A i \in 1..Len(s) : s[i].val = Metric(s[i].key)
    /\ NonIncreasing(s)
    /\ \A g \in groups \ Keys(s) : \A i \in 1..Len(s) : Metric(g) <= s[i].val

\* C9: Booking Channels, Top Routes and Top Drivers hold at most 10 groups,
\* in non-increasing order of the metric, and no group left out has a larger
\* metric than a group listed.
TopTenBounded ==
    /\ "channels" \in views =>
          TopTenOf(out.channels, Groups(df, "Booked By"),
                   LAMBDA g : Frequency(df, "Booked By", g))
    /\ "routes" \in views =>
          TopTenOf(out.routes, Groups(df, "Route"), LAMBDA g : Revenue(df, "Route", g))
    /\ "drivers" \in views =>
          TopTenOf(out.drivers, Groups(df, "Drivers"), LAMBDA g : Revenue(df, "Drivers", g))

TopTenTruncates ==
    /\ {"channels", "routes", "drivers"} \subseteq views
    /\ Cardinality(Groups(df, "Booked By")) > 10
    /\ Cardinality(Groups(df, "Route")) > 10
    /\ Cardinality(Groups(df, "Drivers")) > 10
    /\ out.routes[1].val > out.routes[10].val
    /\ \E g \in Groups(df, "Route") \ Keys(out.routes) : g < out.routes[1].key

\* C10 as stated: one entry per category, each the sum of its Net Amount,
\* ordered descending by that sum.
CategoryOrderedBySum ==
    "cats" \in views =>
        /\ Keys(out.cats) = Groups(df, "Category")
        /\ \A i \in 1..Len(out.cats) : out.cats[i].val = Revenue(df, "Category", out.cats[i].key)
        /\ NonIncreasing(out.cats)

\* C10 amended: one entry per distinct category, never truncated, each the
\* sum of its Net Amount, ordered ascending by category (the group key).
CategoryRevenueComplete ==
    "cats" \in views =>
        /\ Keys(out.cats) = Groups(df, "Category")
        /\ Len(out.cats) = Cardinality(Groups(df, "Category"))
        /\ \A i \in 1..Len(out.cats) : out.cats[i].val = Revenue(df, "Category", out.cats[i].key)
        /\ \A i \in 1..Len(out.cats) - 1 : out.cats[i].key < out.cats[i + 1].key

CategoryBeyondTen ==
    /\ "cats" \in views
    /\ Len(out.cats) > 10
    /\ ~NonIncreasing(out.cats)

=============================================================================
